---- MODULE Spec2Model ----
(***************************************************************************)
(* The WebSocketManager of the OurJourney frontend                         *)
(* (frontend/src/app/components/websocketManager.jsx): the streaming       *)
(* message reassembler, the connection lifecycle around it and the         *)
(* sendMessageAndWaitForResponse workflow, driven by one caller that       *)
(* starts one conversation turn at a time and by the transport's events.   *)
(*                                                                         *)
(* Strings are sequences of one-character strings, so that += is \o and    *)
(* JavaScript truthiness of a string is "not the empty sequence".          *)
(*                                                                         *)
(* The transport is the collaborator of spec section 6: it delivers the    *)
(* peer's frames in order, at most once, for as long as the connection     *)
(* has not been reported closed or failed; ws.close() starts the closing   *)
(* handshake and the close event follows later.  The onmessage handler of  *)
(* the source has no guard of its own, so frames the peer sent before it   *)
(* saw the close are handled like any other.                               *)
(***************************************************************************)
EXTENDS Integers, Sequences, FiniteSets, TLC

\* ------------------------------------------------------------------ bounds
\* Number of sendMessageAndWaitForResponse calls the caller makes.
MaxTurns == 2
\* Number of frames the transport delivers over the whole run.
MaxFrames == 4
\* Number of calls made on the manager besides
\* sendMessageAndWaitForResponse: connect, sendMessage, close and the
\* conversation-id methods.
MaxCalls == 2

\* ----------------------------------------------------------------- values
EmptyStr == <<>>
NoSocket == 0
NoCallback == 0
NoId == 0
\* An identity left in localStorage by an earlier page load.
StoredId == 1

\* Texts a contentBlockDelta may carry (data.delta.text).
DeltaTexts == {EmptyStr, <<"a">>, <<"b">>}
\* Texts an info frame may carry (data.message, or data when a string).
InfoTexts == {EmptyStr, <<"i">>}
\* What the info callback gets when it is handed the data object itself.
DataObject == <<"[object Object]">>
\* Values of a top-level message field.
LegacyTexts == {EmptyStr, <<"x">>}

\* A payload as the transport hands it to onmessage (event.data).  json says
\* what JSON.parse makes of it: "invalid" throws, "null" parses to null,
\* "object" parses to an object with the fields below.  hasData says whether
\* the object has a data field (with its delta, for a contentBlockDelta),
\* dataIsString whether that field is a string rather than an object.
Frame(type, text, hasMessage, message) ==
    [json |-> "object", type |-> type, hasData |-> TRUE, dataIsString |-> FALSE,
     text |-> text, hasMessage |-> hasMessage, message |-> message]

Unparseable == [json |-> "invalid", type |-> "none", hasData |-> FALSE,
                dataIsString |-> FALSE, text |-> EmptyStr, hasMessage |-> FALSE, message |-> EmptyStr]

NullPayload == [json |-> "null", type |-> "none", hasData |-> FALSE,
                dataIsString |-> FALSE, text |-> EmptyStr, hasMessage |-> FALSE, message |-> EmptyStr]

\* A frame of the given type that lacks its data field.
WithoutData(type) ==
    [json |-> "object", type |-> type, hasData |-> FALSE, dataIsString |-> FALSE,
     text |-> EmptyStr, hasMessage |-> FALSE, message |-> EmptyStr]

MessageStart == Frame("messageStart", EmptyStr, FALSE, EmptyStr)
ContentBlockDelta(t) == Frame("contentBlockDelta", t, FALSE, EmptyStr)
BreakToken == Frame("breakTokenType", EmptyStr, FALSE, EmptyStr)
MessageStop == Frame("messageStop", EmptyStr, FALSE, EmptyStr)
\* An info frame whose data is the object { message: t }.
Info(t) == Frame("info", t, FALSE, EmptyStr)
\* An info frame whose data is the string t.
InfoString(t) == [Frame("info", t, FALSE, EmptyStr) EXCEPT !.dataIsString = TRUE]
\* No type tag, a top-level message field.
Legacy(m) == Frame("none", EmptyStr, TRUE, m)
\* An unknown type tag and no top-level message field.
UnknownFrame == Frame("other", EmptyStr, FALSE, EmptyStr)
\* An unknown type tag and a top-level message field.
TaggedLegacy(m) == Frame("other", EmptyStr, TRUE, m)

Payloads ==
    {Unparseable, NullPayload, MessageStart, BreakToken, MessageStop, UnknownFrame}
    \cup {ContentBlockDelta(t) : t \in DeltaTexts}
    \cup {Info(t) : t \in InfoTexts}
    \cup {InfoString(t) : t \in InfoTexts}
    \cup {Legacy(m) : m \in LegacyTexts}
    \cup {TaggedLegacy(m) : m \in LegacyTexts \ {EmptyStr}}
    \cup {WithoutData("contentBlockDelta"), WithoutData("info")}

\* The frame processed by a step that is not a frame delivery.
NoFrame == [json |-> "none", type |-> "none", hasData |-> FALSE,
            dataIsString |-> FALSE, text |-> EmptyStr, hasMessage |-> FALSE, message |-> EmptyStr]

\* The call made by a step that is not a call on the manager.
NoCall == [op |-> "none", outcome |-> "none", id |-> NoId]
\* No clearConversation() so far.
NotCleared == [id |-> NoId, generated |-> 0]

\* No bubble is being streamed into (currentAssistantMessageId is null).
NoMessageId == 0
\* No handleSend is awaiting the manager.
NoClosure == [messages |-> <<>>, currentAssistantMessageId |-> NoMessageId]

\* A callback invocation: which callback, of which turn, with which arguments.
OnMessageCall(cb, text, isNew) ==
    [cb |-> "onMessage", turn |-> cb, text |-> text, isNew |-> isNew]
OnInfoCall(cb, text) ==
    [cb |-> "onInfo", turn |-> cb, text |-> text, isNew |-> FALSE]
OnCompleteCall(cb) ==
    [cb |-> "onComplete", turn |-> cb, text |-> EmptyStr, isNew |-> FALSE]

\* ------------------------------------------------------------------ state
VARIABLES
    \* fields of the WebSocketManager singleton
    ws, isConnected, isConnecting,
    messageCallback, infoCallback, completionCallback,
    currentMessage, hasContent, shouldCreateNewMessage,
    conversationId,
    \* collaborators: the identity store (its item, whether its operations
    \* throw, how many ids have been generated) and the sockets created so far
    localStorage, storage, generated, readyState, requestsOn,
    \* the caller: calls made, and the state of the latest call's promise
    turn, promise,
    \* what the last step did: the payload it handled, the callbacks it
    \* invoked in order, and whether an exception left the event handler
    lastFrame, emitted, uncaught, nframes,
    \* the other calls made on the manager: the last step's call with its
    \* outcome, and how many were made
    lastCall, ncalls,
    \* history of the current turn
    completions, stopSeen, errored, run, sinceBreak,
    \* history of the conversation id: the ids carried by the packets sent
    \* since the last clearConversation/setConversationId, since the last
    \* call that replaced the id, and what the last clearConversation cleared
    sentSinceReset, sentSinceChange, cleared,
    \* the ChatScreen: the UI's message log, the messages array of its last
    \* sendMessageAndWaitForResponse call, the id of the bubble being
    \* streamed into, and the render-time values that the handleSend now
    \* awaiting the manager closed over
    messages, claudeFormatMessages, currentAssistantMessageId, closure,
    \* the ChatScreen: whether the input is disabled, and the placeholder id
    \* that the callbacks of the latest handleSend closed over
    isInputDisabled, assistantMessageId

fields == <<ws, isConnected, isConnecting, messageCallback, infoCallback,
            completionCallback, currentMessage, hasContent,
            shouldCreateNewMessage, conversationId>>
accumulator == <<currentMessage, hasContent, shouldCreateNewMessage>>
callbacks == <<messageCallback, infoCallback, completionCallback>>
identity == <<conversationId, localStorage, generated>>
history == <<completions, stopSeen, errored, run, sinceBreak>>
sent == <<sentSinceReset, sentSinceChange>>
outbound == <<requestsOn, sent>>
vars == <<fields, localStorage, storage, generated, readyState, requestsOn,
          turn, promise, lastFrame, emitted, uncaught, nframes, lastCall,
          ncalls, history, sent, cleared, messages, claudeFormatMessages,
          currentAssistantMessageId, closure, isInputDisabled,
          assistantMessageId>>
chat == <<messages, claudeFormatMessages, currentAssistantMessageId, closure,
          isInputDisabled, assistantMessageId>>

Sockets == 1..Len(readyState)

\* The manager as its constructor leaves it, and its collaborators.
InitManager ==
    /\ ws = NoSocket
    /\ isConnected = FALSE
    /\ isConnecting = FALSE
    /\ messageCallback = NoCallback
    /\ infoCallback = NoCallback
    /\ completionCallback = NoCallback
    /\ currentMessage = EmptyStr
    /\ hasContent = FALSE
    /\ shouldCreateNewMessage = FALSE
    /\ conversationId = NoId
    /\ localStorage \in {NoId, StoredId}
    /\ storage = "ok"
    /\ generated = 0
    /\ readyState = <<>>
    /\ requestsOn = {}
    /\ turn = 0
    /\ promise = "none"
    /\ lastFrame = NoFrame
    /\ emitted = <<>>
    /\ uncaught = FALSE
    /\ nframes = 0
    /\ lastCall = NoCall
    /\ ncalls = 0
    /\ sentSinceReset = {}
    /\ sentSinceChange = {}
    /\ cleared = NotCleared
    /\ completions = 0
    /\ stopSeen = FALSE
    /\ errored = FALSE
    /\ run = EmptyStr
    /\ sinceBreak = "none"

Init ==
    /\ InitManager
    /\ messages = <<>>
    /\ claudeFormatMessages = <<>>
    /\ currentAssistantMessageId = NoMessageId
    /\ closure = NoClosure
    /\ isInputDisabled = FALSE
    /\ assistantMessageId = NoMessageId

\* ----------------------------------------------------------------- close()
\* The sockets after this.ws.close() behind its guard (this.ws &&
\* this.isConnected): an open or connecting socket starts closing, a closing
\* or closed one stays as it is.
afterClose(rs, connected) ==
    IF ws # NoSocket /\ connected
    THEN [rs EXCEPT ![ws] = IF @ \in {"connecting", "open"} THEN "closing" ELSE @]
    ELSE rs

\* A close() that forgets to drop the completion callback.
resetKeepsCompletion ==
    /\ currentMessage' = EmptyStr
    /\ hasContent' = FALSE
    /\ shouldCreateNewMessage' = FALSE
    /\ infoCallback' = NoCallback
    /\ UNCHANGED completionCallback

\* A close() that leaves the new-message flag of the closed session set.
resetKeepsNewMessageFlag ==
    /\ currentMessage' = EmptyStr
    /\ hasContent' = FALSE
    /\ UNCHANGED shouldCreateNewMessage
    /\ infoCallback' = NoCallback
    /\ completionCallback' = NoCallback

\* A close() that clears the text but not the content flag.
resetKeepsHasContent ==
    /\ currentMessage' = EmptyStr
    /\ UNCHANGED hasContent
    /\ shouldCreateNewMessage' = FALSE
    /\ infoCallback' = NoCallback
    /\ completionCallback' = NoCallback

\* The second half of close(): the message state is reset and the info and
\* completion callbacks are dropped; the conversation id is kept.
resetMessageState ==
    /\ currentMessage' = EmptyStr
    /\ hasContent' = FALSE
    /\ shouldCreateNewMessage' = FALSE
    /\ infoCallback' = NoCallback
    /\ completionCallback' = NoCallback

\* close() run when the sockets are rs and this.isConnected is connected.
closeFrom(rs, connected) ==
    /\ readyState' = afterClose(rs, connected)
    /\ resetMessageState

close == closeFrom(readyState, isConnected)

\* ------------------------------------------------- handleStreamingMessage
\* A messageStart branch that hands the unflushed text to onMessage before
\* it resets.
handleMessageStartFlushes ==
    /\ currentMessage' = EmptyStr
    /\ hasContent' = FALSE
    /\ shouldCreateNewMessage' = FALSE
    /\ emitted' = IF hasContent /\ messageCallback # NoCallback
                  THEN <<OnMessageCall(messageCallback, currentMessage, FALSE)>>
                  ELSE <<>>
    /\ UNCHANGED <<infoCallback, completionCallback, readyState>>

\* data.type === 'messageStart'
handleMessageStart ==
    /\ currentMessage' = EmptyStr
    /\ hasContent' = FALSE
    /\ shouldCreateNewMessage' = FALSE
    /\ emitted' = <<>>
    /\ UNCHANGED <<infoCallback, completionCallback, readyState>>

\* A delta branch without the guard on empty text.
handleContentBlockDeltaUnguarded(data) ==
    /\ currentMessage' = currentMessage \o data.text
    /\ hasContent' = TRUE
    /\ shouldCreateNewMessage' = FALSE
    /\ emitted' = IF messageCallback # NoCallback
                  THEN <<OnMessageCall(messageCallback, currentMessage \o data.text,
                                       shouldCreateNewMessage)>>
                  ELSE <<>>
    /\ UNCHANGED <<infoCallback, completionCallback, readyState>>

\* A delta branch that uses the new-message flag without resetting it.
handleContentBlockDeltaKeepsFlag(data) ==
    LET deltaText == data.text IN
    IF deltaText # EmptyStr
    THEN /\ currentMessage' = currentMessage \o deltaText
         /\ hasContent' = TRUE
         /\ UNCHANGED shouldCreateNewMessage
         /\ emitted' = IF messageCallback # NoCallback
                       THEN <<OnMessageCall(messageCallback, currentMessage \o deltaText,
                                            shouldCreateNewMessage)>>
                       ELSE <<>>
         /\ UNCHANGED <<infoCallback, completionCallback, readyState>>
    ELSE /\ emitted' = <<>>
         /\ UNCHANGED <<accumulator, infoCallback, completionCallback, readyState>>

\* data.type === 'contentBlockDelta'
handleContentBlockDelta(data) ==
    LET deltaText == data.text IN
    IF deltaText # EmptyStr
    THEN /\ currentMessage' = currentMessage \o deltaText
         /\ hasContent' = TRUE
         /\ shouldCreateNewMessage' = FALSE
         /\ emitted' = IF messageCallback # NoCallback
                       THEN <<OnMessageCall(messageCallback, currentMessage \o deltaText,
                                            shouldCreateNewMessage)>>
                       ELSE <<>>
         /\ UNCHANGED <<infoCallback, completionCallback, readyState>>
    ELSE /\ emitted' = <<>>
         /\ UNCHANGED <<accumulator, infoCallback, completionCallback, readyState>>

\* A break branch that finalizes the message but does not flag the next
\* delta as a new message.
handleBreakTokenKeepsFlag ==
    IF hasContent /\ Len(currentMessage) > 0
    THEN /\ emitted' = IF messageCallback # NoCallback
                       THEN <<OnMessageCall(messageCallback, currentMessage, FALSE)>>
                       ELSE <<>>
         /\ currentMessage' = EmptyStr
         /\ hasContent' = FALSE
         /\ UNCHANGED <<shouldCreateNewMessage, infoCallback, completionCallback,
                        readyState>>
    ELSE /\ emitted' = <<>>
         /\ UNCHANGED <<accumulator, infoCallback, completionCallback, readyState>>

\* A break branch without the guard on preceding content.
handleBreakTokenUnguarded ==
    /\ emitted' = IF messageCallback # NoCallback
                  THEN <<OnMessageCall(messageCallback, currentMessage, FALSE)>>
                  ELSE <<>>
    /\ currentMessage' = EmptyStr
    /\ hasContent' = FALSE
    /\ shouldCreateNewMessage' = TRUE
    /\ UNCHANGED <<infoCallback, completionCallback, readyState>>

\* data.type === 'breakTokenType'
handleBreakToken ==
    IF hasContent /\ Len(currentMessage) > 0
    THEN /\ emitted' = IF messageCallback # NoCallback
                       THEN <<OnMessageCall(messageCallback, currentMessage, FALSE)>>
                       ELSE <<>>
         /\ currentMessage' = EmptyStr
         /\ hasContent' = FALSE
         /\ shouldCreateNewMessage' = TRUE
         /\ UNCHANGED <<infoCallback, completionCallback, readyState>>
    ELSE /\ emitted' = <<>>
         /\ UNCHANGED <<accumulator, infoCallback, completionCallback, readyState>>

\* data.type === 'messageStop'
handleMessageStop ==
    /\ emitted' = IF completionCallback # NoCallback
                  THEN <<OnCompleteCall(completionCallback)>>
                  ELSE <<>>
    /\ close

\* data.data.message || data.data: the message of a data object unless it
\* is falsy (the empty text), else the data itself; a string has no message.
infoMessage(data) ==
    IF data.dataIsString THEN data.text
    ELSE IF data.text # EmptyStr THEN data.text
    ELSE DataObject

\* data.type === 'info'
handleInfo(data) ==
    /\ emitted' = IF infoCallback # NoCallback
                  THEN <<OnInfoCall(infoCallback, infoMessage(data))>>
                  ELSE <<>>
    /\ UNCHANGED <<accumulator, infoCallback, completionCallback, readyState>>

\* A final else that does not test data.message before using it.
handleLegacyUnguarded(data) ==
    IF messageCallback # NoCallback
    THEN /\ emitted' = <<OnMessageCall(messageCallback, data.message, FALSE)>>
                       \o (IF completionCallback # NoCallback
                           THEN <<OnCompleteCall(completionCallback)>>
                           ELSE <<>>)
         /\ close
    ELSE /\ emitted' = <<>>
         /\ UNCHANGED <<accumulator, infoCallback, completionCallback, readyState>>

\* the final else: legacy format or other message types
handleLegacy(data) ==
    IF data.hasMessage /\ data.message # EmptyStr /\ messageCallback # NoCallback
    THEN /\ emitted' = <<OnMessageCall(messageCallback, data.message, FALSE)>>
                       \o (IF completionCallback # NoCallback
                           THEN <<OnCompleteCall(completionCallback)>>
                           ELSE <<>>)
         /\ close
    ELSE /\ emitted' = <<>>
         /\ UNCHANGED <<accumulator, infoCallback, completionCallback, readyState>>

handleStreamingMessage(data) ==
    IF data.type = "messageStart" THEN handleMessageStart
    ELSE IF data.type = "contentBlockDelta" THEN handleContentBlockDelta(data)
    ELSE IF data.type = "breakTokenType" THEN handleBreakToken
    ELSE IF data.type = "messageStop" THEN handleMessageStop
    ELSE IF data.type = "info" THEN handleInfo(data)
    ELSE handleLegacy(data)

\* The payloads on which JSON.parse or handleStreamingMessage throws: an
\* invalid payload in JSON.parse, null at data.type, a contentBlockDelta
\* without data at data.data.delta, an info frame without data at
\* data.data.message (reached only with an info callback registered).  Each
\* throws before any field is assigned or callback invoked.
handlerThrows(payload) ==
    \/ payload.json # "object"
    \/ payload.type = "contentBlockDelta" /\ ~payload.hasData
    \/ payload.type = "info" /\ ~payload.hasData /\ infoCallback # NoCallback

\* ws.onmessage: JSON.parse and handleStreamingMessage inside try/catch; what
\* they throw is caught and logged.
onmessage(payload) ==
    /\ IF ~handlerThrows(payload)
       THEN handleStreamingMessage(payload)
       ELSE /\ emitted' = <<>>
            /\ UNCHANGED <<accumulator, infoCallback, completionCallback, readyState>>
    /\ uncaught' = FALSE

\* ------------------------------------------------------ conversation id
\* The identity store is localStorage behind try/catch.  Its operations
\* throw or not with the state of the store: "ok", "readonly" (setItem and
\* removeItem throw) or "broken" (every operation throws).
StorageModes == {"ok", "readonly", "broken"}
readThrows == storage = "broken"
writeThrows == storage \in {"readonly", "broken"}

\* generateConversationId(): a random identifier, here the next unused one.
generateConversationId == StoredId + 1 + generated

\* startNewConversation(): a generated id replaces the one in memory, and
\* the stored one unless setItem throws (caught and logged).
startNewConversation ==
    /\ conversationId' = generateConversationId
    /\ generated' = generated + 1
    /\ localStorage' = IF writeThrows THEN localStorage ELSE generateConversationId

\* A getConversationId() that goes to the store even when an id is in memory.
getConversationIdFromStore ==
    IF ~readThrows /\ localStorage # NoId
    THEN conversationId' = localStorage /\ UNCHANGED <<localStorage, generated>>
    ELSE startNewConversation

\* A getConversationId() that does not catch what getItem throws: no id.
getConversationIdUncaught ==
    IF conversationId # NoId
    THEN UNCHANGED identity
    ELSE IF readThrows
    THEN UNCHANGED identity
    ELSE IF localStorage # NoId
    THEN conversationId' = localStorage /\ UNCHANGED <<localStorage, generated>>
    ELSE startNewConversation

\* getConversationId(): the in-memory id, else the stored one when getItem
\* returns one, else (nothing stored, or getItem threw) startNewConversation().
getConversationId ==
    IF conversationId # NoId
    THEN UNCHANGED identity
    ELSE IF ~readThrows /\ localStorage # NoId
    THEN conversationId' = localStorage /\ UNCHANGED <<localStorage, generated>>
    ELSE startNewConversation

\* clearConversation(): the in-memory id is dropped, and the stored one
\* unless removeItem throws (caught and logged).
clearConversation ==
    /\ conversationId' = NoId
    /\ localStorage' = IF writeThrows THEN localStorage ELSE NoId
    /\ UNCHANGED generated

\* setConversationId(id): id replaces the in-memory id, and the stored one
\* unless setItem throws (caught and logged).
setConversationId(id) ==
    /\ conversationId' = id
    /\ localStorage' = IF writeThrows THEN localStorage ELSE id
    /\ UNCHANGED generated

\* ------------------------------------------------------------ sendMessage
\* sendMessage rejects when not connected, and when ws.send() throws, which
\* it does on a socket that is still connecting.
sendRejects(rs, connected) ==
    \/ ~connected
    \/ ws # NoSocket /\ rs[ws] = "connecting"

\* The packet of sendMessage reaches the peer when the socket is open
\* (send() on a closing or closed socket discards it); it carries the
\* conversation id that getConversationId() returned.
transmit(rs) ==
    IF ws # NoSocket /\ rs[ws] = "open"
    THEN /\ requestsOn' = requestsOn \cup {ws}
         /\ sentSinceReset' = sentSinceReset \cup {conversationId'}
         /\ sentSinceChange' = sentSinceChange \cup {conversationId'}
    ELSE UNCHANGED outbound

\* A sendMessage that fetches the conversation id before it checks the
\* connection.
sendMessageIdFirst(rs, connected) ==
    /\ getConversationId
    /\ IF ~connected THEN UNCHANGED outbound ELSE transmit(rs)

\* The state sendMessage changes: the conversation id is fetched once the
\* connected check has passed, then the packet is sent.
sendMessage(rs, connected) ==
    IF ~connected
    THEN UNCHANGED <<identity, outbound>>
    ELSE /\ getConversationId
         /\ transmit(rs)

\* ----------------------------------------------------------- the history
\* History variables: they record what the frames handled so far were, for
\* the properties below.  No step of the manager reads them; the caller
\* knows how often its completion callback has run.
CountComplete(calls) ==
    Cardinality({i \in DOMAIN calls : calls[i].cb = "onComplete"})

IsDelta(f) == f.json = "object" /\ f.type = "contentBlockDelta" /\ f.hasData
IsNonEmptyDelta(f) == IsDelta(f) /\ f.text # EmptyStr
IsBreak(f) == f.json = "object" /\ f.type = "breakTokenType"
IsStart(f) == f.json = "object" /\ f.type = "messageStart"
IsStop(f) == f.json = "object" /\ f.type = "messageStop"
IsInfo(f) == f.json = "object" /\ f.type = "info" /\ f.hasData
IsLegacy(f) ==
    /\ f.json = "object"
    /\ f.type \notin {"messageStart", "contentBlockDelta", "breakTokenType",
                      "messageStop", "info"}
    /\ f.hasMessage
\* A terminal frame: it ends the session.
IsTerminal(f) == IsStop(f) \/ (IsLegacy(f) /\ f.message # EmptyStr)
\* Unparseable, or parsed with no recognized type and no message field.
IsJunk(f) ==
    IF f.json = "object"
    THEN /\ f.type \notin {"messageStart", "contentBlockDelta", "breakTokenType",
                           "messageStop", "info"}
         /\ ~f.hasMessage
    ELSE TRUE

\* What the frame f adds to the history of the turn.
Record(f) ==
    /\ completions' = completions + CountComplete(emitted')
    /\ stopSeen' = (stopSeen \/ IsStop(f))
    /\ run' = IF IsNonEmptyDelta(f) THEN run \o f.text
              ELSE IF IsStart(f) \/ IsBreak(f) \/ IsTerminal(f) THEN EmptyStr
              ELSE run
    /\ sinceBreak' =
           IF IsBreak(f) /\ currentMessage # EmptyStr THEN "clean"
           ELSE IF IsNonEmptyDelta(f) \/ IsTerminal(f) THEN "none"
           ELSE IF IsStart(f) /\ sinceBreak # "none" THEN "restarted"
           ELSE sinceBreak
    /\ UNCHANGED errored

\* -------------------------------------------------------------- the steps
\* The transport delivers the next frame of the peer on socket s: a message
\* event, handled by ws.onmessage.  The peer answers requests only.
Deliver(s, payload) ==
    /\ nframes < MaxFrames
    /\ readyState[s] \in {"open", "closing"}
    /\ s \in requestsOn
    /\ onmessage(payload)
    /\ lastFrame' = payload
    /\ nframes' = nframes + 1
    /\ Record(payload)
    /\ lastCall' = NoCall
    /\ UNCHANGED <<ws, isConnected, isConnecting, messageCallback, identity,
                   outbound, turn, promise, storage, ncalls, cleared>>

\* The caller makes one call at a time: the next turn starts when the last
\* call was rejected, its completion callback has run, or its connection is
\* gone.
CallerMayStart ==
    /\ turn < MaxTurns
    /\ promise # "pending"
    /\ \/ turn = 0
       \/ promise = "rejected"
       \/ completions > 0
       \/ ws # NoSocket /\ readyState[ws] = "closed"

\* sendMessageAndWaitForResponse up to its first suspension: the callbacks
\* are stored, connect() runs, and when connect() resolves at once so do
\* sendMessage and the return (or the catch: close() and rethrow).
sendMessageAndWaitForResponse ==
    /\ CallerMayStart
    /\ turn' = turn + 1
    /\ messageCallback' = turn + 1
    /\ IF isConnected \/ isConnecting
       THEN /\ UNCHANGED <<ws, isConnected, isConnecting>>
            /\ sendMessage(readyState, isConnected)
            /\ IF sendRejects(readyState, isConnected)
               THEN /\ promise' = "rejected"
                    /\ close
               ELSE /\ promise' = "resolved"
                    /\ infoCallback' = turn + 1
                    /\ completionCallback' = turn + 1
                    /\ UNCHANGED <<accumulator, readyState>>
       ELSE \E constructorThrows \in BOOLEAN :
            IF constructorThrows
            THEN /\ promise' = "rejected"
                 /\ close
                 /\ UNCHANGED <<ws, isConnected, isConnecting, identity, outbound>>
            ELSE /\ isConnecting' = TRUE
                 /\ ws' = Len(readyState) + 1
                 /\ readyState' = Append(readyState, "connecting")
                 /\ promise' = "pending"
                 /\ infoCallback' = turn + 1
                 /\ completionCallback' = turn + 1
                 /\ UNCHANGED <<isConnected, accumulator, identity, outbound>>
    /\ lastFrame' = NoFrame
    /\ emitted' = <<>>
    /\ lastCall' = NoCall
    /\ completions' = 0
    /\ stopSeen' = FALSE
    /\ errored' = FALSE
    /\ UNCHANGED <<uncaught, nframes, run, sinceBreak, storage, ncalls, cleared>>

\* ws.onopen of socket s, and the continuation of the call that awaits it:
\* sendMessage, then return true.
onopen(s) ==
    /\ readyState[s] = "connecting"
    /\ isConnected' = TRUE
    /\ isConnecting' = FALSE
    /\ LET rs == [readyState EXCEPT ![s] = "open"] IN
       IF promise = "pending" /\ ws = s
       THEN /\ sendMessage(rs, TRUE)
            /\ IF sendRejects(rs, TRUE)
               THEN /\ promise' = "rejected"
                    /\ closeFrom(rs, TRUE)
               ELSE /\ promise' = "resolved"
                    /\ readyState' = rs
                    /\ UNCHANGED <<accumulator, infoCallback, completionCallback>>
       ELSE /\ readyState' = rs
            /\ UNCHANGED <<promise, identity, outbound, accumulator,
                           infoCallback, completionCallback>>
    /\ lastFrame' = NoFrame
    /\ emitted' = <<>>
    /\ lastCall' = NoCall
    /\ run' = EmptyStr
    /\ sinceBreak' = "none"
    /\ UNCHANGED <<ws, messageCallback, turn, uncaught, nframes,
                   completions, stopSeen, errored, storage, ncalls, cleared>>

\* An error handler on a connection that goes on delivering afterwards.
onerrorLeavesOpen(s) ==
    /\ readyState[s] \in {"connecting", "open", "closing"}
    /\ isConnected' = FALSE
    /\ isConnecting' = FALSE
    /\ IF promise = "pending" /\ ws = s
       THEN /\ promise' = "rejected"
            /\ resetMessageState
       ELSE UNCHANGED <<promise, accumulator, infoCallback, completionCallback>>
    /\ errored' = (errored \/ s = ws)
    /\ lastFrame' = NoFrame
    /\ emitted' = <<>>
    /\ sinceBreak' = "none"
    /\ lastCall' = NoCall
    /\ UNCHANGED <<ws, readyState, messageCallback, identity, outbound, turn,
                   uncaught, nframes, completions, stopSeen, run, storage,
                   ncalls, cleared>>

\* The connection of socket s fails: ws.onerror, then ws.onclose in the same
\* task.  onerror rejects the promise of connect(); a call that still awaits
\* it goes to its catch: close() (not connected by now, so only the reset)
\* and rethrow.  After connect() has resolved the reject does nothing.
onerror(s) ==
    /\ readyState[s] \in {"connecting", "open", "closing"}
    /\ readyState' = [readyState EXCEPT ![s] = "closed"]
    /\ isConnected' = FALSE
    /\ isConnecting' = FALSE
    /\ IF promise = "pending" /\ ws = s
       THEN /\ promise' = "rejected"
            /\ resetMessageState
       ELSE UNCHANGED <<promise, accumulator, infoCallback, completionCallback>>
    /\ errored' = (errored \/ s = ws)
    /\ lastFrame' = NoFrame
    /\ emitted' = <<>>
    /\ sinceBreak' = "none"
    /\ lastCall' = NoCall
    /\ UNCHANGED <<ws, messageCallback, identity, outbound, turn, uncaught,
                   nframes, completions, stopSeen, run, storage, ncalls, cleared>>

\* ws.onclose of socket s without an error: the peer closed the connection,
\* or the closing handshake that ws.close() started has finished.
onclose(s) ==
    /\ readyState[s] \in {"open", "closing"}
    /\ readyState' = [readyState EXCEPT ![s] = "closed"]
    /\ isConnected' = FALSE
    /\ isConnecting' = FALSE
    /\ lastFrame' = NoFrame
    /\ emitted' = <<>>
    /\ sinceBreak' = "none"
    /\ lastCall' = NoCall
    /\ UNCHANGED <<ws, callbacks, accumulator, identity, outbound, turn,
                   promise, uncaught, nframes, completions, stopSeen, errored,
                   run, storage, ncalls, cleared>>

Next ==
    \/ sendMessageAndWaitForResponse /\ UNCHANGED chat
    \/ \E s \in Sockets : onopen(s) /\ UNCHANGED chat
    \/ \E s \in Sockets : onerror(s) /\ UNCHANGED chat
    \/ \E s \in Sockets : onclose(s) /\ UNCHANGED chat
    \/ \E s \in Sockets : \E payload \in Payloads : Deliver(s, payload)
          /\ UNCHANGED chat

Spec == Init /\ [][Next]_vars

\* ------------------------------------------- the other calls on the manager
\* What every direct call on the manager has in common: it is one more call,
\* it handles no frame, and it leaves alone the message callback, the
\* pending sendMessageAndWaitForResponse and the state of the store.
Call(op, outcome, id) ==
    /\ ncalls < MaxCalls
    /\ ncalls' = ncalls + 1
    /\ lastCall' = [op |-> op, outcome |-> outcome, id |-> id]
    /\ lastFrame' = NoFrame
    /\ emitted' = <<>>
    /\ UNCHANGED <<messageCallback, turn, promise, uncaught, nframes, storage,
                   completions, stopSeen, errored>>

\* A caller that awaits the connection inside sendMessageAndWaitForResponse
\* makes no connect() of its own that would replace the socket it awaits.
CallerMayConnect == promise # "pending" \/ isConnected \/ isConnecting

\* A connect() that looks at isConnecting only.
connectWhileConnected ==
    /\ CallerMayConnect
    /\ IF isConnecting
       THEN /\ Call("connect", "resolved", NoId)
            /\ UNCHANGED <<ws, isConnecting, readyState>>
       ELSE \E constructorThrows \in BOOLEAN :
            IF constructorThrows
            THEN /\ Call("connect", "rejected", NoId)
                 /\ UNCHANGED <<ws, isConnecting, readyState>>
            ELSE /\ Call("connect", "pending", NoId)
                 /\ isConnecting' = TRUE
                 /\ ws' = Len(readyState) + 1
                 /\ readyState' = Append(readyState, "connecting")
    /\ UNCHANGED <<isConnected, infoCallback, completionCallback, accumulator,
                   identity, outbound, cleared, run, sinceBreak>>

\* connect() called directly: resolved at once when the manager is connected
\* or connecting; otherwise a new socket is created and the promise is
\* settled by that socket's open or error event (or rejected at once when
\* the WebSocket constructor throws).
connect ==
    /\ CallerMayConnect
    /\ IF isConnected \/ isConnecting
       THEN /\ Call("connect", "resolved", NoId)
            /\ UNCHANGED <<ws, isConnecting, readyState>>
       ELSE \E constructorThrows \in BOOLEAN :
            IF constructorThrows
            THEN /\ Call("connect", "rejected", NoId)
                 /\ UNCHANGED <<ws, isConnecting, readyState>>
            ELSE /\ Call("connect", "pending", NoId)
                 /\ isConnecting' = TRUE
                 /\ ws' = Len(readyState) + 1
                 /\ readyState' = Append(readyState, "connecting")
    /\ UNCHANGED <<isConnected, infoCallback, completionCallback, accumulator,
                   identity, outbound, cleared, run, sinceBreak>>

\* sendMessage() called directly.
sendMessageCall ==
    /\ sendMessage(readyState, isConnected)
    /\ Call("sendMessage",
            IF sendRejects(readyState, isConnected) THEN "rejected" ELSE "resolved",
            conversationId')
    /\ UNCHANGED <<ws, isConnected, isConnecting, infoCallback,
                   completionCallback, accumulator, readyState, cleared, run,
                   sinceBreak>>

\* close() called directly.
closeCall ==
    /\ close
    /\ Call("close", "returned", NoId)
    /\ run' = EmptyStr
    /\ sinceBreak' = "none"
    /\ UNCHANGED <<ws, isConnected, isConnecting, identity, outbound, cleared>>

\* getConversationId() called directly.
getConversationIdCall ==
    /\ getConversationId
    /\ Call("getConversationId", "returned", conversationId')
    /\ UNCHANGED <<ws, isConnected, isConnecting, infoCallback,
                   completionCallback, accumulator, readyState, outbound,
                   cleared, run, sinceBreak>>

\* startNewConversation() called directly.
startNewConversationCall ==
    /\ startNewConversation
    /\ Call("startNewConversation", "returned", conversationId')
    /\ sentSinceChange' = {}
    /\ UNCHANGED <<ws, isConnected, isConnecting, infoCallback,
                   completionCallback, accumulator, readyState, requestsOn,
                   sentSinceReset, cleared, run, sinceBreak>>

\* clearConversation() called directly; the identity it clears is the one
\* in use: the in-memory id, or the stored one when none is in memory.
clearConversationCall ==
    /\ clearConversation
    /\ Call("clearConversation", "returned", NoId)
    /\ cleared' = [id |-> IF conversationId # NoId THEN conversationId
                           ELSE localStorage,
                   generated |-> generated]
    /\ sentSinceReset' = {}
    /\ sentSinceChange' = {}
    /\ UNCHANGED <<ws, isConnected, isConnecting, infoCallback,
                   completionCallback, accumulator, readyState, requestsOn,
                   run, sinceBreak>>

\* setConversationId(id) called directly, with the id of an existing
\* conversation.
setConversationIdCall(id) ==
    /\ setConversationId(id)
    /\ Call("setConversationId", "returned", id)
    /\ cleared' = NotCleared
    /\ sentSinceReset' = {}
    /\ sentSinceChange' = {}
    /\ UNCHANGED <<ws, isConnected, isConnecting, infoCallback,
                   completionCallback, accumulator, readyState, requestsOn,
                   run, sinceBreak>>

\* The identity store starts or stops throwing.
StorageChanges(mode) ==
    /\ mode # storage
    /\ storage' = mode
    /\ lastFrame' = NoFrame
    /\ emitted' = <<>>
    /\ lastCall' = NoCall
    /\ UNCHANGED <<fields, localStorage, generated, readyState, outbound, turn,
                   promise, uncaught, nframes, ncalls, history, cleared>>

\* The frames of a streamed answer.
StreamPayloads == {MessageStart, ContentBlockDelta(<<"a">>), BreakToken, MessageStop}

NextApi ==
    \/ sendMessageAndWaitForResponse /\ UNCHANGED chat
    \/ \E s \in Sockets : onopen(s) /\ UNCHANGED chat
    \/ \E s \in Sockets : onerror(s) /\ UNCHANGED chat
    \/ \E s \in Sockets : onclose(s) /\ UNCHANGED chat
    \/ \E s \in Sockets : \E payload \in StreamPayloads : Deliver(s, payload)
          /\ UNCHANGED chat
    \/ connect /\ UNCHANGED chat
    \/ sendMessageCall /\ UNCHANGED chat
    \/ closeCall /\ UNCHANGED chat

\* The manager with the methods of its connection called directly, between
\* and during the turns: connect(), sendMessage() and close().
SpecApi == Init /\ [][NextApi]_vars

NextIdentity ==
    \/ sendMessageAndWaitForResponse /\ UNCHANGED chat
    \/ \E s \in Sockets : onopen(s) /\ UNCHANGED chat
    \/ \E s \in Sockets : onerror(s) /\ UNCHANGED chat
    \/ \E s \in Sockets : onclose(s) /\ UNCHANGED chat
    \/ \E s \in Sockets : Deliver(s, MessageStop) /\ UNCHANGED chat
    \/ getConversationIdCall /\ UNCHANGED chat
    \/ startNewConversationCall /\ UNCHANGED chat
    \/ clearConversationCall /\ UNCHANGED chat
    \/ setConversationIdCall(StoredId) /\ UNCHANGED chat
    \/ \E mode \in StorageModes : StorageChanges(mode) /\ UNCHANGED chat

\* The manager with the methods of the conversation id called directly
\* between and during the turns, and an identity store that may throw.
SpecIdentity == Init /\ [][NextIdentity]_vars

NextCancel ==
    \/ sendMessageAndWaitForResponse /\ UNCHANGED chat
    \/ \E s \in Sockets : onopen(s) /\ UNCHANGED chat
    \/ \E s \in Sockets : onerror(s) /\ UNCHANGED chat
    \/ \E s \in Sockets : onclose(s) /\ UNCHANGED chat
    \/ \E s \in Sockets : \E payload \in StreamPayloads : Deliver(s, payload)
          /\ UNCHANGED chat
    \/ closeCall /\ UNCHANGED chat

\* The transport reports what it has started: a connecting socket gets its
\* open event (or its error event, which fairness leaves open), and a
\* closing handshake ends with the close event.
connectionOpens == \E s \in Sockets : onopen(s) /\ UNCHANGED chat
handshakeEnds ==
    \E s \in Sockets : readyState[s] = "closing" /\ onclose(s) /\ UNCHANGED chat

\* The turns with a caller that may force-close the session at any point,
\* and a transport that does not stall.  Nothing is assumed of the peer or
\* of the caller: frames and further calls may or may not come.
SpecCancel ==
    /\ Init
    /\ [][NextCancel]_vars
    /\ WF_vars(connectionOpens)
    /\ WF_vars(handshakeEnds)

\* getConnectionStatus()
getConnectionStatus ==
    IF isConnecting THEN "connecting"
    ELSE IF isConnected THEN "connected"
    ELSE "disconnected"

\* The messageStop branch when the completion callback throws: the exception
\* leaves handleStreamingMessage at the call, before this.close(), and is
\* caught and logged by ws.onmessage.
handleMessageStopThrows ==
    /\ completionCallback # NoCallback
    /\ emitted' = <<OnCompleteCall(completionCallback)>>
    /\ UNCHANGED <<accumulator, infoCallback, completionCallback, readyState>>

\* A messageStop frame delivered on socket s to a completion callback that
\* throws.
DeliverThrowing(s) ==
    /\ nframes < MaxFrames
    /\ readyState[s] \in {"open", "closing"}
    /\ s \in requestsOn
    /\ handleMessageStopThrows
    /\ uncaught' = FALSE
    /\ lastFrame' = MessageStop
    /\ nframes' = nframes + 1
    /\ Record(MessageStop)
    /\ lastCall' = NoCall
    /\ UNCHANGED <<ws, isConnected, isConnecting, messageCallback, identity,
                   outbound, turn, promise, storage, ncalls, cleared>>

NextThrow ==
    \/ sendMessageAndWaitForResponse /\ UNCHANGED chat
    \/ \E s \in Sockets : onopen(s) /\ UNCHANGED chat
    \/ \E s \in Sockets : onerror(s) /\ UNCHANGED chat
    \/ \E s \in Sockets : onclose(s) /\ UNCHANGED chat
    \/ \E s \in Sockets : \E payload \in StreamPayloads : Deliver(s, payload)
          /\ UNCHANGED chat
    \/ \E s \in Sockets : DeliverThrowing(s) /\ UNCHANGED chat

\* The turns of a caller whose completion callback may throw, over a
\* transport that ends every closing handshake it has started.
SpecThrow ==
    /\ Init
    /\ [][NextThrow]_vars
    /\ WF_vars(handshakeEnds)

\* A connection that fails before it opens: the transport closes socket s
\* and fires the error event, and the close event follows in the same task.
\* ws.onerror rejects the promise of the connect() that made s, so whoever
\* awaits it runs between the two events: a sendMessageAndWaitForResponse
\* goes to its catch (close(), rethrow), and the caller may call the manager
\* again.  "errored" is a closed socket whose close event is still to come.
onerrorEvent(s) ==
    /\ readyState[s] = "connecting"
    /\ readyState' = [readyState EXCEPT ![s] = "errored"]
    /\ isConnected' = FALSE
    /\ isConnecting' = FALSE
    /\ IF promise = "pending" /\ ws = s
       THEN /\ promise' = "rejected"
            /\ resetMessageState
       ELSE UNCHANGED <<promise, accumulator, infoCallback, completionCallback>>
    /\ errored' = (errored \/ s = ws)
    /\ lastFrame' = NoFrame
    /\ emitted' = <<>>
    /\ sinceBreak' = "none"
    /\ lastCall' = NoCall
    /\ UNCHANGED <<ws, messageCallback, identity, outbound, turn, uncaught,
                   nframes, completions, stopSeen, run, storage, ncalls, cleared>>

\* ws.onclose of the failed socket s, after its error event.
oncloseAfterError(s) ==
    /\ readyState[s] = "errored"
    /\ readyState' = [readyState EXCEPT ![s] = "closed"]
    /\ isConnected' = FALSE
    /\ isConnecting' = FALSE
    /\ lastFrame' = NoFrame
    /\ emitted' = <<>>
    /\ sinceBreak' = "none"
    /\ lastCall' = NoCall
    /\ UNCHANGED <<ws, callbacks, accumulator, identity, outbound, turn,
                   promise, uncaught, nframes, completions, stopSeen, errored,
                   run, storage, ncalls, cleared>>

\* No close event is owed: the transport runs no other event between the
\* error event of a socket and its close event.
NoPendingClose == \A s \in Sockets : readyState[s] # "errored"

NextRetry ==
    \/ sendMessageAndWaitForResponse /\ UNCHANGED chat
    \/ \E s \in Sockets : NoPendingClose /\ onopen(s) /\ UNCHANGED chat
    \/ \E s \in Sockets : NoPendingClose /\ readyState[s] # "connecting"
          /\ onerror(s) /\ UNCHANGED chat
    \/ \E s \in Sockets : NoPendingClose /\ onerrorEvent(s) /\ UNCHANGED chat
    \/ \E s \in Sockets : oncloseAfterError(s) /\ UNCHANGED chat
    \/ \E s \in Sockets : NoPendingClose /\ onclose(s) /\ UNCHANGED chat
    \/ \E s \in Sockets : \E payload \in StreamPayloads :
          NoPendingClose /\ Deliver(s, payload) /\ UNCHANGED chat
    \/ connect /\ UNCHANGED chat
    \/ sendMessageCall /\ UNCHANGED chat
    \/ closeCall /\ UNCHANGED chat

\* The manager with its connection calls made directly, by a caller that
\* may call again as soon as a connection attempt has failed.
SpecRetry == Init /\ [][NextRetry]_vars

\* ------------------------------------------------------------ ChatScreen
\* Number of entries of the message log after the welcome entry when the
\* ChatScreen is first looked at.
MaxLog == 3

\* The id of the welcome entry (id: '1'); the other ids are timestamps,
\* here the position of the entry in the log.
WelcomeId == 1

Message(id, sender, text) == [id |-> id, sender |-> sender, text |-> text]
welcomeMsg == Message(WelcomeId, "bot", <<"h">>)
\* The text a failed turn leaves in its placeholder.
ErrorText == <<"e">>
\* What the input field may hold when handleSend runs.
InputValues == {EmptyStr, <<" ">>, <<"q">>, <<"q", " ">>}

\* The entries a log holds after the welcome entry: what the user sent, the
\* placeholder of a turn that got no text, a bubble with streamed text.
LogEntries(id) ==
    {Message(id, "user", <<"q">>), Message(id, "bot", EmptyStr),
     Message(id, "bot", <<"r">>)}

RECURSIVE LogsOfLen(_)
LogsOfLen(n) ==
    IF n = 1 THEN {<<welcomeMsg>>}
    ELSE {Append(log, entry) : log \in LogsOfLen(n - 1), entry \in LogEntries(n)}

\* The logs of earlier turns: the welcome entry first (added on mount when
\* the log is empty), then up to MaxLog entries.
Logs == UNION {LogsOfLen(n) : n \in 1..(MaxLog + 1)}

\* String.prototype.trim, for the blanks of these texts.
RECURSIVE trim(_)
trim(str) ==
    IF str = EmptyStr THEN EmptyStr
    ELSE IF Head(str) = " " THEN trim(Tail(str))
    ELSE IF str[Len(str)] = " " THEN trim(SubSeq(str, 1, Len(str) - 1))
    ELSE str

\* A transform that does not filter out the empty bot messages.
transformKeepsEmptyBot(msgs) ==
    LET kept == SelectSeq(msgs, LAMBDA msg : msg.id # WelcomeId) IN
    [i \in 1..Len(kept) |->
        [role |-> IF kept[i].sender = "user" THEN "user" ELSE "assistant",
         content |-> <<[text |-> kept[i].text]>>]]

\* transformMessagesToClaudeFormat: filter, filter, map.
transformMessagesToClaudeFormat(msgs) ==
    LET notWelcome == SelectSeq(msgs, LAMBDA msg : msg.id # WelcomeId)
        kept == SelectSeq(notWelcome,
                          LAMBDA msg : msg.sender # "bot" \/ msg.text # EmptyStr)
    IN  [i \in 1..Len(kept) |->
            [role |-> IF kept[i].sender = "user" THEN "user" ELSE "assistant",
             content |-> <<[text |-> kept[i].text]>>]]

\* updateMessage of the AppContext, applied to the log msgs.
updateMessage(msgs, messageId, text) ==
    [i \in DOMAIN msgs |->
        IF msgs[i].id = messageId THEN [msgs[i] EXCEPT !.text = text] ELSE msgs[i]]

\* The catch block of handleSend, run on the log as it is now with the
\* values c that the handler closed over: the bubble that was current at
\* render time gets the error text if it was still empty then.
catchBlock(log, c) ==
    LET found == {i \in DOMAIN c.messages :
                     c.messages[i].id = c.currentAssistantMessageId}
        first == CHOOSE i \in found : \A j \in found : i <= j
    IN  /\ messages' = IF /\ c.currentAssistantMessageId # NoMessageId
                          /\ found # {}
                          /\ c.messages[first].text = EmptyStr
                       THEN updateMessage(log, c.currentAssistantMessageId, ErrorText)
                       ELSE log
        /\ currentAssistantMessageId' = NoMessageId
        /\ closure' = NoClosure
        /\ isInputDisabled' = FALSE

\* handleSend: nothing for a blank input; else the user message and the
\* placeholder of the answer are added to the log, the history is built
\* from the rendered log and the user message, and the manager is called;
\* a call rejected at once goes to the catch block.
handleSend(inputValue) ==
    /\ trim(inputValue) # EmptyStr
    /\ sendMessageAndWaitForResponse
    /\ LET userMessage == Message(Len(messages) + 1, "user", inputValue)
           assistantMessage == Message(Len(messages) + 2, "bot", EmptyStr)
           log == messages \o <<userMessage, assistantMessage>>
           rendered == [messages |-> messages,
                        currentAssistantMessageId |-> currentAssistantMessageId]
       IN  /\ claudeFormatMessages' =
                  transformMessagesToClaudeFormat(Append(messages, userMessage))
           /\ assistantMessageId' = assistantMessage.id
           /\ IF promise' = "rejected"
              THEN catchBlock(log, rendered)
              ELSE /\ messages' = log
                   /\ currentAssistantMessageId' = assistantMessage.id
                   /\ isInputDisabled' = TRUE
                   /\ closure' = IF promise' = "pending" THEN rendered
                                 ELSE NoClosure

\* handleSend after its await, in the step that settles the call.
handleSendResumes ==
    IF promise = "pending" /\ promise' = "rejected"
    THEN /\ catchBlock(messages, closure)
         /\ UNCHANGED <<claudeFormatMessages, assistantMessageId>>
    ELSE IF promise = "pending" /\ promise' = "resolved"
    THEN /\ closure' = NoClosure
         /\ UNCHANGED <<messages, claudeFormatMessages, currentAssistantMessageId,
                        isInputDisabled, assistantMessageId>>
    ELSE UNCHANGED chat

\* The ChatScreen after some turns: a log of earlier turns, and possibly a
\* bot bubble of a turn that never completed still marked as current.
InitChat ==
    /\ InitManager
    /\ messages \in Logs
    /\ claudeFormatMessages = <<>>
    /\ currentAssistantMessageId \in
           {NoMessageId} \cup {messages[i].id : i \in
                                  {j \in DOMAIN messages :
                                      j > 1 /\ messages[j].sender = "bot"}}
    /\ closure = NoClosure
    /\ isInputDisabled = (currentAssistantMessageId # NoMessageId)
    /\ assistantMessageId = NoMessageId

NextChat ==
    \/ \E inputValue \in InputValues : handleSend(inputValue)
    \/ \E s \in Sockets : onopen(s) /\ handleSendResumes
    \/ \E s \in Sockets : onerror(s) /\ handleSendResumes
    \/ \E s \in Sockets : onclose(s) /\ UNCHANGED chat

\* The ChatScreen sending the user's messages through the manager, up to
\* the point where each call is settled.
SpecChat == InitChat /\ [][NextChat]_vars

\* onBotMessageReceived of the latest handleSend, applied to the log: a new
\* bubble for isNewMessage, else an update of the bubble with the id that
\* handleSend gave its placeholder.
onBotMessageReceived(log, botMessage, isNewMessage) ==
    IF isNewMessage
    THEN Append(log, Message(Len(log) + 1, "bot", botMessage))
    ELSE updateMessage(log, assistantMessageId, botMessage)

\* The callbacks that the manager invoked in this step, run in the
\* ChatScreen: onBotMessageReceived, then onMessageComplete.  (onInfoReceived
\* sets the info banner only.)
callbacksRun ==
    LET received == {i \in DOMAIN emitted' : emitted'[i].cb = "onMessage"}
        complete == \E i \in DOMAIN emitted' : emitted'[i].cb = "onComplete"
        call == emitted'[CHOOSE i \in received : TRUE]
    IN  /\ messages' = IF received = {} THEN messages
                       ELSE onBotMessageReceived(messages, call.text, call.isNew)
        /\ currentAssistantMessageId' =
               IF complete THEN NoMessageId
               ELSE IF received # {} /\ call.isNew THEN Len(messages) + 1
               ELSE currentAssistantMessageId
        /\ isInputDisabled' = IF complete THEN FALSE ELSE isInputDisabled
        /\ UNCHANGED <<claudeFormatMessages, closure, assistantMessageId>>

\* The ChatScreen as mounted: the welcome entry is the whole log.
InitScreen ==
    /\ InitManager
    /\ messages = <<welcomeMsg>>
    /\ claudeFormatMessages = <<>>
    /\ currentAssistantMessageId = NoMessageId
    /\ closure = NoClosure
    /\ isInputDisabled = FALSE
    /\ assistantMessageId = NoMessageId

\* What the input field may hold when a message is sent.
Questions == {<<"q">>}

NextScreen ==
    \/ \E inputValue \in Questions : handleSend(inputValue)
    \/ \E s \in Sockets : onopen(s) /\ handleSendResumes
    \/ \E s \in Sockets : onerror(s) /\ handleSendResumes
    \/ \E s \in Sockets : onclose(s) /\ UNCHANGED chat
    \/ \E s \in Sockets : \E payload \in StreamPayloads :
          Deliver(s, payload) /\ callbacksRun

screenOpens == \E s \in Sockets : onopen(s) /\ handleSendResumes

\* The ChatScreen sending the user's messages and showing the streamed
\* answers, over a transport that does not stall: a connecting socket gets
\* its open or error event, and a closing handshake ends.
SpecScreen ==
    /\ InitScreen
    /\ [][NextScreen]_vars
    /\ WF_vars(screenOpens)
    /\ WF_vars(handshakeEnds)

\* ---------------------------------------------------------------- claims
\* A step that handled a frame, and the callbacks it invoked.
FrameStep == nframes' = nframes + 1
Invoked(cbs) == {i \in DOMAIN emitted' : emitted'[i].cb \in cbs}

\* C1 as stated (P2, break isolation): a break token that arrives while the
\* accumulated text is non-empty invokes onMessage exactly once, with the
\* pre-break text and isNewMessage false, and the first non-empty delta
\* handled afterwards in the same session invokes onMessage(newText, true)
\* with newText the delta's own text, whatever frames were handled between
\* the break and that delta.
C1_BreakIsolationAnyFramesBetween ==
    [][FrameStep =>
        /\ (IsBreak(lastFrame') /\ currentMessage # EmptyStr
              => emitted' = <<OnMessageCall(turn, currentMessage, FALSE)>>)
        /\ (IsNonEmptyDelta(lastFrame') /\ sinceBreak # "none"
              => emitted' = <<OnMessageCall(turn, lastFrame'.text, TRUE)>>)]_vars

\* C1 amended: the same, provided no messageStart was handled between the
\* break and the delta; info frames, empty deltas, further break tokens and
\* unrecognized or unparseable frames in between change nothing.
C1_BreakIsolation ==
    [][FrameStep =>
        /\ (IsBreak(lastFrame') /\ currentMessage # EmptyStr
              => emitted' = <<OnMessageCall(turn, currentMessage, FALSE)>>)
        /\ (IsNonEmptyDelta(lastFrame') /\ sinceBreak = "clean"
              => emitted' = <<OnMessageCall(turn, lastFrame'.text, TRUE)>>)]_vars

\* C1 witness: a non-empty delta after a break has just been reported as a
\* new message carrying the delta's text alone.
C1_Witness ==
    /\ IsNonEmptyDelta(lastFrame)
    /\ nframes >= 3
    /\ emitted = <<OnMessageCall(turn, lastFrame.text, TRUE)>>

\* C2 (P1, append invariant): every non-empty delta invokes onMessage with
\* the concatenation of the non-empty deltas handled since the last reset
\* (messageStart, break token, end of the previous session or session open).
C2_AppendInvariant ==
    [][FrameStep /\ IsNonEmptyDelta(lastFrame')
        => \E isNew \in BOOLEAN : emitted' = <<OnMessageCall(turn, run', isNew)>>]_vars

\* C3 (P4, idempotent completion): the completion callback of a turn is
\* never invoked twice, and it has been invoked exactly once as soon as a
\* messageStop of the turn has been handled, whatever frames came before it
\* and whatever frames (a second messageStop, a legacy frame) come after it.
C3_CompletionExactlyOnce ==
    /\ completions <= 1
    /\ stopSeen => completions = 1

\* C3 witness: a messageStop handled after the turn's completion callback
\* had already run, and it did not run again.
C3_Witness ==
    /\ IsStop(lastFrame)
    /\ emitted = <<>>
    /\ stopSeen
    /\ completions = 1

\* C4 (callback ordering): onComplete is the last callback of its turn: once
\* it has been invoked, no frame handled later invokes onMessage or onInfo
\* of that turn, nor onComplete again; within one frame it comes last.
C4_NothingAfterComplete ==
    [][FrameStep =>
        /\ (completions >= 1 => emitted' = <<>>)
        /\ \A i \in Invoked({"onComplete"}) : i = Len(emitted')]_vars

\* The connection of the current turn has been closed or is closing.
TurnEnded == ws # NoSocket /\ readyState[ws] \in {"closing", "closed"}

\* C5: sendMessageAndWaitForResponse does not return before the turn has
\* ended: when its promise is resolved the connection has been closed by
\* messageStop processing or the transport.
C5_ReturnsAfterTurnEnded ==
    promise = "resolved" => TurnEnded

\* C6: once the transport's failure has been handled for a turn, while
\* connecting or mid-stream, the call has been rejected and the session is
\* closed: connection flags cleared, Accumulator reset.
C6_FailureRejectsAndCloses ==
    errored =>
        /\ promise = "rejected"
        /\ ~isConnected /\ ~isConnecting
        /\ currentMessage = EmptyStr /\ ~hasContent /\ ~shouldCreateNewMessage

C8_JunkIsNoOp ==
    [][FrameStep /\ IsJunk(lastFrame')
        => /\ emitted' = <<>>
           /\ ~uncaught'
           /\ UNCHANGED <<fields, localStorage, readyState, requestsOn,
                          turn, promise>>]_vars

\* C8 witness: such a frame was handled in the middle of an accumulation.
C8_Witness ==
    /\ IsJunk(lastFrame)
    /\ hasContent
    /\ readyState[ws] = "open"

\* C9 (P6, legacy short-circuit): a frame with no recognized type and a
\* top-level message field X, handled while the turn's callbacks are
\* registered, invokes onMessage(X, false), then onComplete, and closes the
\* session, in any Accumulator state.
C9_LegacyShortCircuit ==
    [][FrameStep /\ IsLegacy(lastFrame')
         /\ messageCallback # NoCallback /\ completionCallback # NoCallback
        => /\ emitted' = <<OnMessageCall(turn, lastFrame'.message, FALSE),
                           OnCompleteCall(turn)>>
           /\ readyState'[ws] \in {"closing", "closed"}
           /\ currentMessage' = EmptyStr /\ ~hasContent'
           /\ ~shouldCreateNewMessage']_vars

\* C10 (P3, empty-delta no-op): a contentBlockDelta with empty text invokes
\* no callback and leaves currentMessage, hasContent and
\* shouldCreateNewMessage as they were.
C10_EmptyDeltaNoOp ==
    [][FrameStep /\ IsDelta(lastFrame') /\ lastFrame'.text = EmptyStr
        => emitted' = <<>> /\ UNCHANGED accumulator]_vars

\* C10 witness: an empty delta handled between a break and the next
\* non-empty delta; the pending new-message flag is still set.
C10_Witness ==
    /\ IsDelta(lastFrame)
    /\ lastFrame.text = EmptyStr
    /\ shouldCreateNewMessage

\* A step that is the direct call op on the manager.
CallStep(op) == ncalls' = ncalls + 1 /\ lastCall'.op = op

\* C11 (scenario D, NotConnectedError): sendMessage called while the
\* manager is not connected (never connected, still connecting, or after
\* its connection closed or failed) is rejected, transmits nothing, and
\* changes no field of the manager (Accumulator, connection flags,
\* callbacks, conversation id), nothing in the identity store, no socket
\* and no pending call.
C11_NotConnectedRejects ==
    [][CallStep("sendMessage") /\ ~isConnected
        => /\ lastCall'.outcome = "rejected"
           /\ UNCHANGED <<fields, localStorage, generated, readyState,
                          outbound, turn, promise>>]_vars

\* C11 witness: sendMessage was rejected on a manager whose connection had
\* closed in the middle of a stream, with no conversation id fetched yet
\* by a packet of that call.
C11_Witness ==
    /\ lastCall.op = "sendMessage"
    /\ lastCall.outcome = "rejected"
    /\ ws # NoSocket
    /\ readyState[ws] = "closed"
    /\ hasContent

\* C12: connect() is idempotent and concurrent calls resolve together: a
\* connect() made while an earlier one is still connecting is not resolved
\* before the transport reports the connection open (it stays pending, to
\* be resolved or rejected with the first), and a connect() on a connected
\* manager is resolved without a new socket being created.
C12_ConcurrentConnectsResolveTogether ==
    [][CallStep("connect") =>
        /\ (isConnecting /\ ws # NoSocket /\ readyState[ws] = "connecting"
              => lastCall'.outcome = "pending")
        /\ (isConnected
              => lastCall'.outcome = "resolved" /\ UNCHANGED <<ws, readyState>>)]_vars

\* C13: close() is safe and idempotent in every state (never connected,
\* connecting, connected, closing, closed): it returns without throwing,
\* leaves the Accumulator idle and the conversation id unchanged in memory
\* and in the store, and a close() that directly follows a close() changes
\* nothing at all.
C13_CloseIsSafeAndIdempotent ==
    [][CallStep("close") =>
        /\ lastCall'.outcome = "returned"
        /\ ~uncaught'
        /\ currentMessage' = EmptyStr /\ ~hasContent' /\ ~shouldCreateNewMessage'
        /\ UNCHANGED <<conversationId, localStorage, generated>>
        /\ (lastCall.op = "close"
              => UNCHANGED <<fields, localStorage, readyState, outbound,
                             turn, promise>>)]_vars

\* C13 witness: a second close() in a row, on a manager that was connected
\* and had sent a request under its conversation id.
C13_Witness ==
    /\ lastCall.op = "close"
    /\ ncalls = 2
    /\ isConnected
    /\ readyState[ws] = "closing"
    /\ conversationId # NoId

\* C14 as stated: all the packets sent between two consecutive
\* clearConversation()/setConversationId() calls carry the same non-empty
\* conversation id, whatever connections, sends, closes, transport errors
\* and other calls happen in between.
C14_SameIdBetweenClearOrSet ==
    /\ Cardinality(sentSinceReset) <= 1
    /\ NoId \notin sentSinceReset

\* C14 amended: all the packets sent between two consecutive calls that
\* replace the id (clearConversation(), setConversationId() and
\* startNewConversation()) carry the same non-empty conversation id, across
\* connections, closes on messageStop, transport errors and store failures.
C14_SameIdBetweenChanges ==
    /\ Cardinality(sentSinceChange) <= 1
    /\ NoId \notin sentSinceChange

\* C14 witness: two turns on two connections, the first one lost to a
\* transport error, no call on the conversation id in between, and one id
\* on both packets.
C14_Witness ==
    /\ requestsOn = {1, 2}
    /\ ncalls = 0
    /\ promise = "resolved"
    /\ sentSinceChange = {conversationId}

\* A step in which sendMessage succeeded: the call that was waiting for it,
\* or was just made, returned.
SendStep == promise' = "resolved" /\ (promise # "resolved" \/ turn' # turn)

\* C15: clearConversation() is an explicit identity reset: a sendMessage
\* that succeeds after it (with no setConversationId() in between) carries
\* an id generated after the clearConversation() call, never the id that
\* was cleared, whether or not the store's removeItem, getItem and setItem
\* throw.
C15_ClearedIdIsNotSentAgain ==
    [][SendStep /\ cleared # NotCleared
        => /\ conversationId' # cleared.id
           /\ conversationId' > StoredId + cleared.generated]_vars

\* C16: failures of the identity store are not fatal.  Whether or not its
\* operations throw, getConversationId, startNewConversation,
\* setConversationId and clearConversation return normally (the first two
\* with a non-empty id, the one now in memory), a sendMessage that succeeds
\* carries a non-empty conversation id and transmits its packet on an open
\* socket, and an id that is in memory is the one every later send carries.
C16_StoreFailuresAreNotFatal ==
    [][/\ SendStep
            => /\ conversationId' # NoId
               /\ (conversationId # NoId => UNCHANGED conversationId)
               /\ (readyState'[ws] = "open"
                     => ws \in requestsOn' /\ conversationId' \in sentSinceChange')
       /\ \A op \in {"getConversationId", "startNewConversation",
                      "setConversationId", "clearConversation"} :
            CallStep(op)
            => /\ lastCall'.outcome = "returned"
               /\ ~uncaught'
               /\ (op \in {"getConversationId", "startNewConversation"}
                     => lastCall'.id # NoId /\ lastCall'.id = conversationId')]_vars

\* C16 witness: the store throws on every operation, the id lives in memory
\* only, and the second turn has just sent it again on a new connection.
C16_Witness ==
    /\ storage = "broken"
    /\ localStorage = NoId
    /\ conversationId # NoId
    /\ requestsOn = {1, 2}
    /\ promise = "resolved"
    /\ ncalls = 0
    /\ sentSinceChange = {conversationId}

\* close() has just been called in the middle of turn t: the call is
\* waiting for its connection or has sent its request, it has seen neither
\* a rejection nor its completion callback, and its connection has not
\* been lost.
Cancelled(t) ==
    /\ lastCall.op = "close"
    /\ turn = t
    /\ promise \in {"pending", "resolved"}
    /\ completions = 0
    /\ ~errored
    /\ ws # NoSocket
    /\ readyState[ws] # "closed"

\* C17 (cancellation): when the caller force-closes the session with close()
\* in the middle of a turn (while connecting, after the request was sent,
\* or mid-stream), the caller of that turn's sendMessageAndWaitForResponse
\* eventually sees a rejection, or at least its completion callback: it is
\* not left waiting forever with neither.
C17_CancelledCallIsSettled ==
    \A t \in 1..MaxTurns :
        Cancelled(t) ~> (turn = t /\ (promise = "rejected" \/ completions > 0))

\* C18 (scenario C, ignored break): a break token handled while the
\* Accumulator holds no content invokes no callback and changes no
\* Accumulator field, so a new-message flag left by an earlier break stays
\* set; hence the second of two consecutive break tokens invokes nothing,
\* and a messageStop that follows an ignored break invokes onComplete and
\* nothing else.
C18_IgnoredBreak ==
    [][FrameStep =>
        /\ (IsBreak(lastFrame') /\ (~hasContent \/ currentMessage = EmptyStr)
              => emitted' = <<>> /\ UNCHANGED accumulator)
        /\ (IsBreak(lastFrame') /\ IsBreak(lastFrame)
              => emitted' = <<>> /\ UNCHANGED accumulator)
        /\ (IsStop(lastFrame') /\ IsBreak(lastFrame) /\ emitted = <<>>
               /\ completionCallback # NoCallback
              => emitted' = <<OnCompleteCall(turn)>>)]_vars

\* C18 witness: the second of two consecutive break tokens was ignored and
\* the new-message flag set by the first is still pending.
C18_Witness ==
    /\ IsBreak(lastFrame)
    /\ emitted = <<>>
    /\ shouldCreateNewMessage
    /\ currentMessage = EmptyStr

\* C19 (history normalization): the messages array that handleSend passes
\* to sendMessageAndWaitForResponse holds, in their order, exactly the
\* entries of the message log followed by the new user message, without
\* the welcome entry and without the bot entries whose text is empty; each
\* is mapped to role user or assistant by its sender, with its text as the
\* one content item; the placeholder added for the turn is not in it.
C19_HistoryNormalization ==
    [][turn' = turn + 1 =>
        LET userMessage == messages'[Len(messages) + 1]
            placeholder == messages'[Len(messages) + 2]
            all == Append(messages, userMessage)
            K == {i \in DOMAIN all :
                     /\ all[i].id # WelcomeId
                     /\ ~(all[i].sender = "bot" /\ all[i].text = EmptyStr)}
            pos(i) == Cardinality({k \in K : k <= i})
        IN  /\ userMessage.sender = "user"
            /\ placeholder.sender = "bot" /\ placeholder.id # userMessage.id
            /\ Len(claudeFormatMessages') = Cardinality(K)
            /\ Len(all) \in K
            /\ \A i \in K :
                  claudeFormatMessages'[pos(i)] =
                      [role |-> IF all[i].sender = "user" THEN "user"
                                ELSE "assistant",
                       content |-> <<[text |-> all[i].text]>>]]_vars

\* C19 witness: a history was built from a log with the welcome entry, an
\* empty placeholder of an earlier turn and a bubble with text: three of
\* the six entries now in the log are in it, one of them an assistant's.
C19_Witness ==
    /\ turn = 1
    /\ Len(messages) = 6
    /\ Len(claudeFormatMessages) = 3
    /\ \E i \in DOMAIN claudeFormatMessages : claudeFormatMessages[i].role = "assistant"
    /\ \E i \in 2..4 : messages[i].sender = "bot" /\ messages[i].text = EmptyStr

\* C20: a messageStart frame, in any state, leaves the Accumulator idle
\* (currentMessage empty, hasContent and shouldCreateNewMessage false),
\* invokes no callback (unflushed text is discarded, not emitted), and
\* changes neither the connection flags and sockets, nor the registered
\* callbacks, nor the conversation id in memory and in the store.
C20_MessageStartResets ==
    [][FrameStep /\ IsStart(lastFrame')
        => /\ emitted' = <<>>
           /\ currentMessage' = EmptyStr /\ ~hasContent' /\ ~shouldCreateNewMessage'
           /\ UNCHANGED <<ws, isConnected, isConnecting, readyState, callbacks,
                          conversationId, localStorage>>]_vars

\* C20 witness: a messageStart handled with the callbacks registered, after
\* a break of the same session had finalized text and left its new-message
\* flag pending; the flag is gone.
C20_Witness ==
    /\ IsStart(lastFrame)
    /\ sinceBreak = "restarted"
    /\ ~shouldCreateNewMessage
    /\ messageCallback = turn
    /\ completionCallback = turn

\* C21: an info frame, in any state in which an info callback is
\* registered, invokes that callback exactly once with the frame's text
\* (data.message of a data object, data itself when it is a string) and no
\* other callback, and leaves the Accumulator, the connection flags and the
\* sockets unchanged.
C21_InfoFrame ==
    [][FrameStep /\ IsInfo(lastFrame') /\ infoCallback # NoCallback
        => /\ emitted' = <<OnInfoCall(infoCallback, lastFrame'.text)>>
           /\ UNCHANGED <<accumulator, ws, isConnected, isConnecting, readyState>>]_vars

\* C22: handling a messageStop frame always ends with the session closed:
\* the close of the manager's socket has been requested, the Accumulator is
\* reset, and the info and completion callbacks are cleared, with or
\* without a completion callback registered and whether it returns or
\* throws.
C22_CleanupOnMessageStop ==
    [][FrameStep /\ IsStop(lastFrame')
        => /\ readyState'[ws] \in {"closing", "closed"}
           /\ currentMessage' = EmptyStr
           /\ ~hasContent'
           /\ ~shouldCreateNewMessage'
           /\ infoCallback' = NoCallback
           /\ completionCallback' = NoCallback]_vars

\* C23: every sendMessage that resolves has transmitted its packet on an
\* open connection: when a call of sendMessageAndWaitForResponse gets past
\* its sendMessage, the manager's socket is open and has carried the
\* request; a socket that is closing is never used for a new turn.
C23_ResolvedSendIsOnOpenSocket ==
    [][SendStep => /\ ws' # NoSocket
                   /\ readyState'[ws'] = "open"
                   /\ ws' \in requestsOn']_vars

\* The close event of a socket that is no longer the manager's.
StaleCloseStep ==
    \E s \in Sockets :
        /\ s # ws
        /\ readyState[s] # "closed"
        /\ readyState'[s] = "closed"

\* C24: the connection flags describe the manager's current socket:
\* isConnected is true only while the socket in this.ws is open, and the
\* close or error event of a socket that a later connect() has replaced
\* leaves isConnected and isConnecting as they are.
C24_FlagsDescribeCurrentSocket ==
    [][/\ isConnected' => ws' # NoSocket /\ readyState'[ws'] = "open"
       /\ StaleCloseStep => UNCHANGED <<isConnected, isConnecting>>]_vars

\* C25: the manager never has more than one socket that is connecting or
\* open at the same time.
C25_SingleConnection ==
    Cardinality({s \in Sockets : readyState[s] \in {"connecting", "open"}}) <= 1

\* C26: in every reachable state hasContent is true if and only if
\* currentMessage is non-empty, whatever frames have been handled and
\* however often the session has been closed.
C26_AccumulatorConsistency == hasContent <=> currentMessage # EmptyStr

\* Content accumulated in a second session, after the close() that ended
\* the first.
C26_Witness ==
    /\ turn = 2
    /\ ws = 2
    /\ hasContent
    /\ currentMessage # EmptyStr
    /\ IsNonEmptyDelta(lastFrame)

\* The onMessage calls of the last step that announce a new message.
NewMessageCalls(calls) ==
    {i \in DOMAIN calls : calls[i].cb = "onMessage" /\ calls[i].isNew}

\* C27: shouldCreateNewMessage is true only while currentMessage is empty
\* and hasContent is false; it becomes true only by a break token that had
\* content to finalize; and an onMessage call with isNewMessage = true
\* consumes the flag, so that each such break token is followed by at most
\* one of them.
C27_CarryBit ==
    [][/\ shouldCreateNewMessage' => currentMessage' = EmptyStr /\ ~hasContent'
       /\ shouldCreateNewMessage' /\ ~shouldCreateNewMessage
            => FrameStep /\ IsBreak(lastFrame') /\ hasContent
                         /\ currentMessage # EmptyStr
       /\ Cardinality(NewMessageCalls(emitted')) <= 1
       /\ NewMessageCalls(emitted') # {}
            => shouldCreateNewMessage /\ ~shouldCreateNewMessage']_vars

\* The delta after a break token has announced the new message and used
\* up the flag.
C27_Witness ==
    /\ NewMessageCalls(emitted) # {}
    /\ IsNonEmptyDelta(lastFrame)
    /\ ~shouldCreateNewMessage
    /\ hasContent
    /\ currentMessage = lastFrame.text

\* C28: isConnected and isConnecting are never both true, and
\* getConnectionStatus() reports the one state the flags are in.
C28_OneConnectionStatus ==
    /\ ~(isConnected /\ isConnecting)
    /\ (getConnectionStatus = "connecting") = isConnecting
    /\ (getConnectionStatus = "connected") = isConnected
    /\ (getConnectionStatus = "disconnected") = (~isConnected /\ ~isConnecting)

\* An earlier socket has opened while the manager's socket is connecting.
C28_Witness ==
    /\ isConnected
    /\ ws # NoSocket
    /\ readyState[ws] = "connecting"
    /\ getConnectionStatus = "connected"

\* The onMessage calls of a step that update a message already announced.
UpdateCalls(calls) ==
    {i \in DOMAIN calls : calls[i].cb = "onMessage" /\ ~calls[i].isNew}

\* C29: the bubbles of the ChatScreen mirror the logical messages of the
\* stream: an onMessage(text, true) adds a new bubble with that text, and an
\* onMessage(text, false) writes its text into the newest bubble of the log
\* and into no other, so that a bubble finalized by a break token is not
\* overwritten by the text that follows the break.
C29_BubblesMirrorMessages ==
    [][FrameStep =>
         /\ \A i \in NewMessageCalls(emitted') :
                /\ Len(messages') = Len(messages) + 1
                /\ SubSeq(messages', 1, Len(messages)) = messages
                /\ messages'[Len(messages')].sender = "bot"
                /\ messages'[Len(messages')].text = emitted'[i].text
         /\ \A i \in UpdateCalls(emitted') :
                messages' = [messages EXCEPT ![Len(messages)].text = emitted'[i].text]]_vars

\* The turn is over: the socket of the manager has been closed.
TurnOver == ws # NoSocket /\ readyState[ws] = "closed"

\* C30: an input that handleSend disabled is enabled again once the turn
\* has ended, however it ended: by onMessageComplete, by the catch block,
\* or by the socket closing after the request was sent.
C30_InputIsReEnabled == (isInputDisabled /\ TurnOver) ~> ~isInputDisabled

====
